---------------------------- MODULE Spec2Model ----------------------------
(***************************************************************************)
(* Model of copy_context.py: cli_main -> main -> the batching loop over    *)
(* the enumerated files, the retry decorator around the remote call, the   *)
(* output file and the clipboard step.                                     *)
(*                                                                         *)
(* Representation.                                                         *)
(*  - A file is a record [readable, chars]: whether open()/read() succeeds *)
(*    and len(file_content).  A file's content is identified by the file's *)
(*    position in `files`.                                                 *)
(*  - batch_content (a Python string built by `+= f"{file_content}\n\n"`)  *)
(*    is the sequence of the positions of the files appended to it; it is  *)
(*    the empty string exactly when no file has been appended, because     *)
(*    every append adds at least the separator.                            *)
(*  - A response text is a sequence: << >> is "" and <<k>> is the          *)
(*    non-empty text answering the k-th dispatched batch.  The output file *)
(*    is the concatenation of what was appended, plus the flag `stale`     *)
(*    that says whether the content a previous run left is still there.    *)
(*  - One attempt of the wrapped coroutine process_with_claude_async       *)
(*    resolves in one of four ways (Outcomes): the API streams text, the   *)
(*    API streams no text, the API call raises inside process_with_claude  *)
(*    (caught there), or the executor leg itself raises an Exception       *)
(*    outside process_with_claude's try block (run_in_executor /           *)
(*    asyncio.run failing), which is what f_retry's except clause sees.    *)
(***************************************************************************)
EXTENDS Integers, Sequences, FiniteSets, TLC

\* ------------------------------------------------------------------ bounds
\* Longest list of files the enumeration returns.
MaxFiles == 3

\* ------------------------------------------------------- program constants
BATCH_MAX_TOKENS == 3000
\* @retry(Exception, tries=4, delay=3, backoff=2)
tries == 4
delay == 3
backoff == 2
\* --concurrency default: the size of the ThreadPoolExecutor
concurrency == 10

\* len(file_content) of the files the model enumerates; their estimates are
\* 0, 1499, 1500, 3000 (the ceiling) and 3001.
CharCounts == {3, 5999, 6002, 12000, 12004}

Outcomes == {"text", "no_text", "api_error", "bridge_error"}

VARIABLES
    pc,               \* position of the program
    files,            \* what find_files returns (main's `files`)
    stale,            \* the output file still holds a previous run's content
    output,           \* what this run has written to the output file
    token_count,      \* main's token_count
    batch_content,    \* main's batch_content
    processed_files,  \* main's processed_files
    progress,         \* completed units of the progress task
    idx,              \* position of the for loop in `files`
    site,             \* which await is pending: "overflow" | "final" | "none"
    mtries,           \* f_retry's mtries
    mdelay,           \* f_retry's mdelay
    relevant_content, \* the value the await returned
    inFlight,         \* calls running in the executor
    exit_code,        \* "none" while running, then "0" or "1"
    clipboard,        \* "none" | "copied" | "failed"
    dispatched,       \* history: the batches handed to the remote call
    attempts,         \* history: attempts made by the current f_retry
    sleeps,           \* history: the sleeps of the current f_retry
    raised,           \* history: attempts of the current f_retry that raised
    outcome,          \* history: how the latest attempt resolved
    enumerated,       \* history: find_files returned a list
    truncations,      \* history: times the output file was cleared
    resolved          \* history: awaits of main that have returned

vars == << pc, files, stale, output, token_count, batch_content,
           processed_files, progress, idx, site, mtries, mdelay,
           relevant_content, inFlight, exit_code, clipboard, dispatched,
           attempts, sleeps, raised, outcome, enumerated, truncations,
           resolved >>

mainVars == << token_count, batch_content, processed_files, progress, idx >>
callVars == << site, mtries, mdelay, relevant_content, inFlight, attempts,
               sleeps, raised, outcome >>
histVars == << enumerated, truncations, resolved >>

\* ----------------------------------------------------------------- helpers
RECURSIVE SeqsUpTo(_, _)
SeqsUpTo(S, n) ==
    IF n = 0 THEN { << >> }
    ELSE LET shorter == SeqsUpTo(S, n - 1)
         IN  shorter \cup { Append(s, x) : s \in { t \in shorter : Len(t) = n - 1 }, x \in S }

FileKinds ==
    { [readable |-> TRUE, chars |-> c] : c \in CharCounts }
        \cup { [readable |-> FALSE, chars |-> 0] }

\* int(char_count * TOKEN_ESTIMATE_PER_CHAR), the ratio being 0.25
estimate_tokens(char_count) == (char_count * 25) \div 100

\* Mutant: the test forgets the size of the incoming file.
OverflowsIgnoringFile(tc, ftc) == tc > BATCH_MAX_TOKENS

\* the test of line 233
Overflows(tc, ftc) == tc + ftc > BATCH_MAX_TOKENS

\* Mutant: `while mtries > 0`, one attempt too many.
RetryAgainOffByOne(mt) == mt > 0

\* f_retry's loop condition
RetryAgain(mt) == mt > 1

\* process_with_claude for the k-th dispatched batch: the streamed text, or ""
\* when nothing was streamed or the API call raised
process_with_claude(o, k) == IF o = "text" THEN << k >> ELSE << >>

\* Mutant: the new response is written in front of the earlier ones.
PrependResponse(out, resp) == IF resp # << >> THEN resp \o out ELSE out

\* `if relevant_content: write_text(read_text() + relevant_content + "\n\n")`
AppendResponse(out, resp) == IF resp # << >> THEN out \o resp ELSE out

\* Mutant: `=` for `+=`, the file replaces the batch.
AppendFileOverwrite(batch, i) == << i >>

\* `batch_content += f"{file_content}\n\n"`
AppendFile(batch, i) == Append(batch, i)

\* Mutant: the output file is not cleared.
NotCleared(previous) == previous

\* `output_path.write_text("")`: whatever a previous run left is gone
Cleared(previous) == FALSE

Exit(code) ==
    /\ pc' = "exited"
    /\ exit_code' = code

\* ------------------------------------------------------------------- Init
Init ==
    /\ pc = "cli_main"
    /\ files \in SeqsUpTo(FileKinds, MaxFiles)
    /\ stale \in BOOLEAN
    /\ output = << >>
    /\ token_count = 0
    /\ batch_content = << >>
    /\ processed_files = 0
    /\ progress = 0
    /\ idx = 1
    /\ site = "none"
    /\ mtries = 0
    /\ mdelay = 0
    /\ relevant_content = << >>
    /\ inFlight = 0
    /\ exit_code = "none"
    /\ clipboard = "none"
    /\ dispatched = << >>
    /\ attempts = 0
    /\ sleeps = << >>
    /\ raised = 0
    /\ outcome = "none"
    /\ enumerated = FALSE
    /\ truncations = 0
    /\ resolved = 0


\* ---------------------------------------------------------------- cli_main
\* cli_main up to asyncio.run(main(...)): an empty prompt exits 1.
CliMain ==
    /\ pc = "cli_main"
    /\ \E prompt_empty \in BOOLEAN :
          IF prompt_empty THEN Exit("1")
          ELSE pc' = "find_files" /\ UNCHANGED exit_code
    /\ UNCHANGED << files, stale, output, clipboard, dispatched >>
    /\ UNCHANGED histVars
    /\ UNCHANGED mainVars
    /\ UNCHANGED callVars

\* main, lines 172-176: find_files exits 1 when `find` fails; main exits 0
\* when no file is found.  Neither path touches the output file.
FindFiles ==
    /\ pc = "find_files"
    /\ \E find_ok \in BOOLEAN :
          /\ enumerated' = find_ok
          /\ IF ~find_ok THEN Exit("1")
             ELSE IF Len(files) = 0 THEN Exit("0")
             ELSE pc' = "setup" /\ UNCHANGED exit_code
    /\ UNCHANGED << truncations, resolved >>
    /\ UNCHANGED << files, stale, output, clipboard, dispatched >>
    /\ UNCHANGED mainVars
    /\ UNCHANGED callVars

\* main, lines 178-193: the output file is cleared, the counters are set and
\* only then is the credential looked up; a missing credential exits 1.
Setup ==
    /\ pc = "setup"
    /\ stale' = Cleared(stale)
    /\ output' = << >>
    /\ truncations' = truncations + 1
    /\ UNCHANGED << enumerated, resolved >>
    /\ token_count' = 0
    /\ batch_content' = << >>
    /\ processed_files' = 0
    /\ \E api_key \in BOOLEAN :
          IF ~api_key THEN Exit("1")
          ELSE pc' = "loop" /\ UNCHANGED exit_code
    /\ UNCHANGED << files, clipboard, dispatched, progress, idx >>
    /\ UNCHANGED callVars

\* ------------------------------------------------------- the batching loop
\* f_retry is entered: `mtries, mdelay = tries, delay`.
EnterRetry(where) ==
    /\ site' = where
    /\ mtries' = tries
    /\ mdelay' = delay
    /\ attempts' = 0
    /\ sleeps' = << >>
    /\ raised' = 0
    /\ outcome' = "none"
    /\ pc' = "attempt"
    /\ UNCHANGED << relevant_content, inFlight >>

\* Mutant: a failed read still counts the file as processed.
ReadFailCounted ==
    /\ pc = "loop"
    /\ idx <= Len(files)
    /\ ~files[idx].readable
    /\ processed_files' = processed_files + 1
    /\ progress' = progress + 1
    /\ idx' = idx + 1
    /\ UNCHANGED << pc, files, stale, output, exit_code, clipboard, dispatched,
                    token_count, batch_content >>
    /\ UNCHANGED callVars
    /\ UNCHANGED histVars

\* lines 222-228: the read fails; only the progress bar moves.
ReadFail ==
    /\ pc = "loop"
    /\ idx <= Len(files)
    /\ ~files[idx].readable
    /\ progress' = progress + 1
    /\ idx' = idx + 1
    /\ UNCHANGED << pc, files, stale, output, exit_code, clipboard, dispatched,
                    token_count, batch_content, processed_files >>
    /\ UNCHANGED callVars
    /\ UNCHANGED histVars

\* lines 230-233 (test false) and 245-248: the file joins the batch.
AddFile ==
    /\ pc = "loop"
    /\ idx <= Len(files)
    /\ files[idx].readable
    /\ ~Overflows(token_count, estimate_tokens(files[idx].chars))
    /\ batch_content' = AppendFile(batch_content, idx)
    /\ token_count' = token_count + estimate_tokens(files[idx].chars)
    /\ processed_files' = processed_files + 1
    /\ progress' = progress + 1
    /\ idx' = idx + 1
    /\ UNCHANGED << pc, files, stale, output, exit_code, clipboard, dispatched >>
    /\ UNCHANGED callVars
    /\ UNCHANGED histVars

\* lines 233-239: the test is true; the current batch_content, whatever it
\* holds, is sent and main awaits the answer.
OverflowFlush ==
    /\ pc = "loop"
    /\ idx <= Len(files)
    /\ files[idx].readable
    /\ Overflows(token_count, estimate_tokens(files[idx].chars))
    /\ dispatched' = Append(dispatched, batch_content)
    /\ EnterRetry("overflow")
    /\ UNCHANGED << files, stale, output, exit_code, clipboard >>
    /\ UNCHANGED mainVars
    /\ UNCHANGED histVars

\* lines 240-248: the await returned; append the answer, reset the batch,
\* then add the file that overflowed.
ResumeOverflow ==
    /\ pc = "returned"
    /\ site = "overflow"
    /\ output' = AppendResponse(output, relevant_content)
    /\ batch_content' = AppendFile(<< >>, idx)
    /\ token_count' = 0 + estimate_tokens(files[idx].chars)
    /\ processed_files' = processed_files + 1
    /\ progress' = progress + 1
    /\ idx' = idx + 1
    /\ site' = "none"
    /\ pc' = "loop"
    /\ UNCHANGED << files, stale, exit_code, clipboard, dispatched, mtries,
                    mdelay, relevant_content, inFlight, attempts, sleeps,
                    raised, outcome, enumerated, truncations >>
    /\ resolved' = resolved + 1

\* lines 251-254: the loop is over and batch_content is not empty.
FinalFlush ==
    /\ pc = "loop"
    /\ idx > Len(files)
    /\ batch_content # << >>
    /\ dispatched' = Append(dispatched, batch_content)
    /\ EnterRetry("final")
    /\ UNCHANGED << files, stale, output, exit_code, clipboard >>
    /\ UNCHANGED mainVars
    /\ UNCHANGED histVars

\* line 251 false: nothing is left to send.
NoFinalFlush ==
    /\ pc = "loop"
    /\ idx > Len(files)
    /\ batch_content = << >>
    /\ pc' = "finish"
    /\ UNCHANGED << files, stale, output, exit_code, clipboard, dispatched >>
    /\ UNCHANGED mainVars
    /\ UNCHANGED callVars
    /\ UNCHANGED histVars

\* lines 255-256: the final await returned.
ResumeFinal ==
    /\ pc = "returned"
    /\ site = "final"
    /\ output' = AppendResponse(output, relevant_content)
    /\ site' = "none"
    /\ pc' = "finish"
    /\ UNCHANGED << files, stale, exit_code, clipboard, dispatched, mtries,
                    mdelay, relevant_content, inFlight, attempts, sleeps,
                    raised, outcome, enumerated, truncations >>
    /\ resolved' = resolved + 1
    /\ UNCHANGED mainVars

\* lines 259-269: executor shutdown, clipboard copy (best effort), return;
\* asyncio.run returns and the process exits 0.
Finish ==
    /\ pc = "finish"
    /\ \E copy_ok \in BOOLEAN :
          clipboard' = IF copy_ok THEN "copied" ELSE "failed"
    /\ Exit("0")
    /\ UNCHANGED << files, stale, output, dispatched >>
    /\ UNCHANGED mainVars
    /\ UNCHANGED callVars
    /\ UNCHANGED histVars

\* ------------------------------------------------------- the retry bridge
\* `await f(*args, **kwargs)` (line 103 or 110): process_with_claude_async
\* hands the blocking call to the executor.
Submit ==
    /\ pc = "attempt"
    /\ inFlight' = inFlight + 1
    /\ attempts' = attempts + 1
    /\ pc' = "in_executor"
    /\ UNCHANGED << files, stale, output, exit_code, clipboard, dispatched,
                    site, mtries, mdelay, relevant_content, sleeps, outcome >>
    /\ UNCHANGED mainVars
    /\ UNCHANGED histVars
    /\ UNCHANGED raised

\* The attempt returns: process_with_claude's result, "" included, also when
\* the API call raised (lines 149-151).  f_retry returns it (line 103/110).
AttemptReturns ==
    /\ pc = "in_executor"
    /\ \E o \in Outcomes \ {"bridge_error"} :
          /\ outcome' = o
          /\ relevant_content' = process_with_claude(o, Len(dispatched))
    /\ inFlight' = inFlight - 1
    /\ pc' = "returned"
    /\ UNCHANGED << files, stale, output, exit_code, clipboard, dispatched,
                    site, mtries, mdelay, attempts, sleeps >>
    /\ UNCHANGED mainVars
    /\ UNCHANGED histVars
    /\ UNCHANGED raised

\* The attempt raises inside the while loop: lines 104-105.
AttemptRaises ==
    /\ pc = "in_executor"
    /\ RetryAgain(mtries)
    /\ outcome' = "bridge_error"
    /\ inFlight' = inFlight - 1
    /\ pc' = "sleep"
    /\ UNCHANGED << files, stale, output, exit_code, clipboard, dispatched,
                    site, mtries, mdelay, relevant_content, attempts, sleeps >>
    /\ UNCHANGED mainVars
    /\ UNCHANGED histVars
    /\ raised' = raised + 1

\* Mutant: `mtries -= 1` is forgotten.
SleepNoCountdown ==
    /\ pc = "sleep"
    /\ sleeps' = Append(sleeps, mdelay)
    /\ mdelay' = mdelay * backoff
    /\ pc' = "attempt"
    /\ UNCHANGED << files, stale, output, exit_code, clipboard, dispatched,
                    site, relevant_content, inFlight, attempts, outcome, mtries >>
    /\ UNCHANGED mainVars
    /\ UNCHANGED histVars
    /\ UNCHANGED raised

\* lines 106-108: sleep, then one try fewer and a longer delay.
Sleep ==
    /\ pc = "sleep"
    /\ sleeps' = Append(sleeps, mdelay)
    /\ mtries' = mtries - 1
    /\ mdelay' = mdelay * backoff
    /\ pc' = "attempt"
    /\ UNCHANGED << files, stale, output, exit_code, clipboard, dispatched,
                    site, relevant_content, inFlight, attempts, outcome >>
    /\ UNCHANGED mainVars
    /\ UNCHANGED histVars
    /\ UNCHANGED raised

\* The last attempt (line 110) raises: nothing in f_retry or main catches it,
\* cli_main's `except Exception` logs it and calls sys.exit(1) (lines 293-296).
LastAttemptRaises ==
    /\ pc = "in_executor"
    /\ ~RetryAgain(mtries)
    /\ outcome' = "bridge_error"
    /\ inFlight' = inFlight - 1
    /\ Exit("1")
    /\ UNCHANGED << files, stale, output, clipboard, dispatched,
                    site, mtries, mdelay, relevant_content, attempts, sleeps >>
    /\ UNCHANGED mainVars
    /\ UNCHANGED histVars
    /\ raised' = raised + 1

\* ------------------------------------------------------------------- Spec
Next ==
    \/ CliMain
    \/ FindFiles
    \/ Setup
    \/ ReadFail
    \/ AddFile
    \/ OverflowFlush
    \/ ResumeOverflow
    \/ FinalFlush
    \/ NoFinalFlush
    \/ ResumeFinal
    \/ Finish
    \/ Submit
    \/ AttemptReturns
    \/ AttemptRaises
    \/ Sleep
    \/ LastAttemptRaises

Spec == Init /\ [][Next]_vars

\* Every step of the program is eventually taken: the event loop runs the one
\* coroutine there is, each executor call and each sleep completes.
FairSpec == Spec /\ WF_vars(Next)

Terminated == pc = "exited"

\* ------------------------------------------------- vocabulary of the claims
\* Sum of estimate_tokens over the files of a batch.
RECURSIVE SumTokens(_)
SumTokens(batch) ==
    IF batch = << >> THEN 0
    ELSE estimate_tokens(files[Head(batch)].chars) + SumTokens(Tail(batch))

\* The batches of a history, one after the other.
RECURSIVE Flatten(_)
Flatten(batches) ==
    IF batches = << >> THEN << >>
    ELSE Head(batches) \o Flatten(Tail(batches))

\* Positions of the files whose read succeeds, in enumeration order.
ReadableFiles ==
    SelectSeq([i \in 1..Len(files) |-> i], LAMBDA i : files[i].readable)

\* delay, delay*backoff, delay*backoff^2, ...: the first n sleeps
RetrySchedule(n) == [i \in 1..n |-> delay * backoff ^ (i - 1)]

IsPrefix(s, t) == Len(s) <= Len(t) /\ SubSeq(t, 1, Len(s)) = s

LoopDone == pc = "finish" \/ clipboard # "none"

\* --------------------------------------------------------------------- C1
\* C1: every batch handed to the remote call (and the batch being built)
\* has a token sum of at most BATCH_MAX_TOKENS unless it holds exactly one
\* file.
C1_BatchCeiling ==
    /\ \A k \in 1..Len(dispatched) :
          Len(dispatched[k]) # 1 => SumTokens(dispatched[k]) <= BATCH_MAX_TOKENS
    /\ Len(batch_content) # 1 => SumTokens(batch_content) <= BATCH_MAX_TOKENS
    /\ token_count = SumTokens(batch_content)

\* A finished run that sent a full two-file batch and an oversized single file.
C1_Witness ==
    /\ pc = "exited"
    /\ \E k \in 1..Len(dispatched) :
          Len(dispatched[k]) >= 2 /\ SumTokens(dispatched[k]) = BATCH_MAX_TOKENS
    /\ \E k \in 1..Len(dispatched) :
          Len(dispatched[k]) = 1 /\ SumTokens(dispatched[k]) > BATCH_MAX_TOKENS

\* --------------------------------------------------------------------- C2
\* C2: once the loop and the final flush are over, the dispatched batches,
\* concatenated in dispatch order, are exactly the readable files in
\* enumeration order: none dropped, duplicated or reordered.
C2_NoDropDupReorder ==
    LoopDone => Flatten(dispatched) = ReadableFiles

\* Two batches were sent, a file was skipped, and the final flush is over.
C2_Witness ==
    /\ pc = "finish"
    /\ Len(dispatched) = 2
    /\ Len(ReadableFiles) = 2
    /\ \E i \in 1..Len(files) : ~files[i].readable

\* --------------------------------------------------------------------- C9
\* C9: every batch dispatched to the remote call holds at least one file
\* (an overflow flush happens only when the buffer is non-empty).
C9_Original ==
    \A k \in 1..Len(dispatched) : dispatched[k] # << >>

\* --------------------------------------------------------------------- C3
\* C3: a wrapped call that raises K < tries times and then returns is
\* answered after exactly K+1 attempts; when it raises on every attempt,
\* exactly `tries` attempts are made and the last exception reaches the
\* caller; the sleeps are delay, delay*backoff, ... (3, 6, 12), one after
\* each failed attempt but the last of `tries`.
C3_RetryOutcome ==
    /\ pc = "returned" =>
          /\ raised < tries
          /\ attempts = raised + 1
          /\ sleeps = RetrySchedule(raised)
    /\ (pc = "exited" /\ outcome = "bridge_error") =>
          /\ raised = tries
          /\ attempts = tries
          /\ sleeps = RetrySchedule(tries - 1)
          /\ exit_code = "1"
    /\ IsPrefix(sleeps, << 3, 6, 12 >>)

\* The call raised tries-1 times and then returned text.
C3_Witness ==
    /\ pc = "returned"
    /\ raised = tries - 1
    /\ relevant_content # << >>

\* --------------------------------------------------------------------- C4
\* C4: when the API call inside process_with_claude raises, the batch
\* contributes empty output only after all `tries` attempts (with the
\* backoff sleeps between them) have been made (stated for a batch that
\* holds a file).
C4_Original ==
    (pc = "returned" /\ outcome = "api_error" /\ dispatched[Len(dispatched)] # << >>) =>
        /\ attempts = tries
        /\ sleeps = RetrySchedule(tries - 1)

\* --------------------------------------------------------------------- C5
\* C5: a run that dispatched a batch, whatever became of the remote call,
\* still batches every remaining file, reaches the clipboard step and
\* exits 0 (stated for the runs all of whose batches hold a file).
C5_Original ==
    (/\ pc = "exited"
     /\ dispatched # << >>
     /\ \A k \in 1..Len(dispatched) : dispatched[k] # << >>) =>
        /\ exit_code = "0"
        /\ clipboard # "none"
        /\ Flatten(dispatched) = ReadableFiles

\* --------------------------------------------------------------------- C6
\* C6: at most one remote call is in flight (never more than the pool
\* size); while batch N+1's call is pending, retries included, every
\* earlier batch has resolved and had its response appended; the responses
\* in the output file are in batch order.
C6_Sequential ==
    /\ inFlight <= 1
    /\ inFlight <= concurrency
    /\ pc \in {"attempt", "in_executor", "sleep", "returned"} =>
          /\ resolved = Len(dispatched) - 1
          /\ \A i \in 1..Len(output) : output[i] < Len(dispatched)
    /\ (pc \notin {"attempt", "in_executor", "sleep", "returned"}
          /\ ~(pc = "exited" /\ outcome = "bridge_error")) =>
          resolved = Len(dispatched)
    /\ \A i \in 1..Len(output) : output[i] \in 1..Len(dispatched)
    /\ \A i, j \in 1..Len(output) : i < j => output[i] < output[j]

\* Batch 2's call is in the executor on a retry; batch 1's answer is in the file.
C6_Witness ==
    /\ inFlight = 1
    /\ Len(dispatched) = 2
    /\ attempts = 2
    /\ output = << 1 >>

C8_Terminates ==
    /\ <>Terminated
    /\ [](attempts <= tries)
    /\ [](progress = idx - 1 /\ idx <= Len(files) + 1)
    /\ [](LoopDone => progress = Len(files))
    /\ [][idx' = idx \/ idx' = idx + 1]_vars

\* A finished run that met a file larger than the ceiling and a call that
\* needed every attempt.
C8_Witness ==
    /\ pc = "exited"
    /\ clipboard # "none"
    /\ attempts = tries
    /\ \E i \in 1..Len(files) :
          files[i].readable /\ estimate_tokens(files[i].chars) > BATCH_MAX_TOKENS

\* -------------------------------------------------------------------- C10
\* C10: the iteration of an unreadable file leaves the buffer, the token
\* counter, the processed-file counter, the dispatched batches and the
\* output untouched, starts no call, advances the progress bar by one and
\* goes on with the next file; processed_files counts the readable files
\* only, and a run whose files are all unreadable exits 0.
C10_SkipUnreadable ==
    /\ [][(pc = "loop" /\ idx <= Len(files) /\ ~files[idx].readable) =>
            /\ UNCHANGED << batch_content, token_count, processed_files,
                            dispatched, output, inFlight, attempts,
                            exit_code, stale >>
            /\ progress' = progress + 1
            /\ idx' = idx + 1
            /\ pc' = "loop"]_vars
    /\ [](LoopDone => processed_files = Len(ReadableFiles))
    /\ []((pc = "exited" /\ progress > 0 /\ ReadableFiles = << >>) =>
             (exit_code = "0" /\ dispatched = << >>))

\* A run that skipped one file, batched two others and exited 0.
C10_Witness ==
    /\ pc = "exited"
    /\ exit_code = "0"
    /\ Len(files) = 3
    /\ processed_files = 2
    /\ progress = 3
    /\ ~files[2].readable

=============================================================================
